---- MODULE Spec2Model ----
(***************************************************************************)
(* Adaptive max pooling 2D on CPU (forward and backward), modelled from    *)
(* csrc/aten/cpu/AdaptiveMaxPooling.cpp.                                   *)
(*                                                                         *)
(* Tensors are records [sizes, fmt, dtype, data]: data is the flat buffer,  *)
(* a function on 0..numel-1 laid out as fmt says.  Element values are      *)
(* integers: finite values are themselves, NEG_INF stands for -infinity,   *)
(* NAN for a NaN and UNINIT for memory at::empty has not written.          *)
(***************************************************************************)
EXTENDS Integers, Sequences, FiniteSets, TLC

VARIABLES
    op,           \* which entry point runs: "forward", "backward", "window"
    pc,           \* position of the call
    error,        \* the TORCH_CHECK that failed, "" when none
    input,        \* input tensor (forward); shape, layout, dtype donor (backward)
    output_size,  \* the IntArrayRef output_size
    output,       \* forward result
    indices,      \* forward result; backward argument
    grad_output,  \* backward argument
    grad_input,   \* backward result
    num_threads,  \* threads the pool offers to parallel_for
    lanes,        \* Vectorized<float>::size() of the build
    workers,      \* one record per parallel_for sub-range
    started,      \* whether any parallel_for body has begun
    writers,      \* per grad_input offset: the workers that have stored to it;
                  \* forward: per output offset, the <<worker, unit>> that stored
    ext,          \* window scan: <<input extent, output extent>>
    win           \* window scan: the [lo, hi] pairs computed so far

vars == <<op, pc, error, input, output_size, output, indices,
          grad_output, grad_input, num_threads, lanes, workers, started,
          writers, ext, win>>

----------------------------------------------------------------------------
(* Bounds of the model *)

MaxExtent == 12      \* extents of the window scan
MaxN == 2            \* batch size of the data-carrying inputs
MaxC == 3            \* channels of the data-carrying inputs
MaxPlanes == 4       \* planes (N * C) of the inputs that vary in shape
MaxChannels == 5     \* channels of the channels-last calls
MaxLanes == 2        \* float lanes per vector
MaxThreads == 2      \* sub-ranges of one parallel_for
BigH == 20           \* rows of the large planes
BigW == 13           \* columns of the large planes

(* Element values *)
NEG_INF == -99
NAN == 99
UNINIT == 77
Int32Max == 2147483647
HugeExtent == 65536

----------------------------------------------------------------------------
(* Arithmetic helpers *)

Min(a, b) == IF a < b THEN a ELSE b

RECURSIVE Prod(_)
Prod(s) == IF Len(s) = 0 THEN 1 ELSE Head(s) * Prod(Tail(s))

RECURSIVE Pow2(_)
Pow2(k) == IF k = 0 THEN 1 ELSE 2 * Pow2(k - 1)

RECURSIVE BitLen(_)
BitLen(x) == IF x = 0 THEN 0 ELSE 1 + BitLen(x \div 2)

\* a * b <= m for non-negative a, b, without forming a product beyond m
MulLeq(a, b, m) == (a = 0) \/ (b = 0) \/ (a <= m \div b)

isnan(v) == v = NAN

\* operator> of the floating types: false when either side is a NaN
Gt(a, b) == ~isnan(a) /\ ~isnan(b) /\ a > b

\* significand bits of the scalar types
Digits(t) ==
    CASE t = "BFloat16" -> 8
      [] t = "Float" -> 24
      [] t = "Double" -> 53

\* a non-negative integer rounded to p significand bits, ties to even
RoundToDigits(x, p) ==
    IF BitLen(x) <= p THEN x
    ELSE LET q == Pow2(BitLen(x) - p)
             m == x \div q
             r == x % q
         IN  IF 2 * r > q \/ (2 * r = q /\ m % 2 = 1)
             THEN (m + 1) * q
             ELSE m * q

\* int64 -> scalar_t.  c10::BFloat16 is built from a float, so an integer
\* reaches it through float.
ToScalar(x, t) ==
    IF t = "BFloat16"
    THEN RoundToDigits(RoundToDigits(x, Digits("Float")), Digits(t))
    ELSE RoundToDigits(x, Digits(t))

\* an integral floating value -> int64
ToInt64(v) == v

----------------------------------------------------------------------------
(* Tensors: sizes, memory format, flat storage *)

Numel(sizes) == Prod(sizes)

\* Tensor::size(i), negative i counting from the last dimension
Size(t, i) == IF i < 0 THEN t.sizes[Len(t.sizes) + i + 1] ELSE t.sizes[i + 1]

\* storage offset of element (n, c, h, w) of a dense tensor; a 3-D tensor
\* is (c, h, w) row-major and has n = 0
StorageOffset(sizes, fmt, n, c, h, w) ==
    IF Len(sizes) = 3
    THEN (c * sizes[2] + h) * sizes[3] + w
    ELSE IF fmt = "ChannelsLast"
         THEN ((n * sizes[3] + h) * sizes[4] + w) * sizes[2] + c
         ELSE ((n * sizes[2] + c) * sizes[3] + h) * sizes[4] + w

\* element (n, c, h, w) of tensor t
At(t, n, c, h, w) == t.data[StorageOffset(t.sizes, t.fmt, n, c, h, w)]

\* the (n, c, h, w) stored at offset k of a dense tensor
CoordsOf(sizes, fmt, k) ==
    IF Len(sizes) = 3
    THEN [n |-> 0, c |-> k \div (sizes[2] * sizes[3]),
          h |-> (k \div sizes[3]) % sizes[2], w |-> k % sizes[3]]
    ELSE IF fmt = "ChannelsLast"
         THEN [n |-> k \div (sizes[3] * sizes[4] * sizes[2]),
               h |-> (k \div (sizes[4] * sizes[2])) % sizes[3],
               w |-> (k \div sizes[2]) % sizes[4],
               c |-> k % sizes[2]]
         ELSE [n |-> k \div (sizes[2] * sizes[3] * sizes[4]),
               c |-> (k \div (sizes[3] * sizes[4])) % sizes[2],
               h |-> (k \div sizes[4]) % sizes[3],
               w |-> k % sizes[4]]

\* Tensor::contiguous(memory_format): the same elements, stored as fmt says
Contiguous(t, fmt) ==
    IF t.fmt = fmt THEN t
    ELSE [sizes |-> t.sizes, fmt |-> fmt, dtype |-> t.dtype,
          data |-> [k \in DOMAIN t.data |->
                      LET p == CoordsOf(t.sizes, fmt, k)
                      IN  At(t, p.n, p.c, p.h, p.w)]]

\* at::empty(sizes, options.memory_format(fmt)): storage not yet written
Empty(sizes, fmt, t) ==
    [sizes |-> sizes, fmt |-> fmt, dtype |-> t,
     data |-> [k \in 0 .. Numel(sizes) - 1 |-> UNINIT]]

----------------------------------------------------------------------------
(* Window index math, at::native::start_index / end_index *)

start_index(a, b, c) == (a * c) \div b

end_index(a, b, c) == ((a + 1) * c + b - 1) \div b

\* the two extents handed over in the other order
WindowBad(o, osize, isize) ==
    [lo |-> start_index(o, isize, osize), hi |-> end_index(o, isize, osize)]

\* the rows (or columns) output index o scans, as both forward kernels
\* compute them
Window(o, osize, isize) ==
    [lo |-> start_index(o, osize, isize), hi |-> end_index(o, osize, isize)]

----------------------------------------------------------------------------
(* cpu_adaptive_max_pool: the contiguous forward kernel *)

\* float/double -> scalar_t of a value the model holds
ToScalarValue(v, t) ==
    IF v = NEG_INF \/ v = NAN \/ v = UNINIT THEN v
    ELSE IF v < 0 THEN 0 - ToScalar(0 - v, t) ELSE ToScalar(v, t)

\* the test that replaces the running maximum
Replaces(val, maxval) == Gt(val, maxval) \/ isnan(val)

\* the two loops over the window, from (ih, iw) on
RECURSIVE ScanWindow(_, _, _, _, _, _, _, _, _)
ScanWindow(data, base, input_width, ih, iw, ih1, iw0, iw1, acc) ==
    IF ih >= ih1 THEN acc
    ELSE IF iw >= iw1
         THEN ScanWindow(data, base, input_width, ih + 1, iw0, ih1, iw0, iw1, acc)
         ELSE LET index == ih * input_width + iw
                  val == data[base + index]
              IN  ScanWindow(data, base, input_width, ih, iw + 1, ih1, iw0, iw1,
                             IF Replaces(val, acc.maxval)
                             THEN [maxval |-> val, maxindex |-> index]
                             ELSE acc)

\* the local max of output cell (oh, ow) of the plane at input_ptr
LocalMax(data, input_ptr, input_height, input_width, output_height, output_width, oh, ow) ==
    LET hwin == Window(oh, output_height, input_height)
        wwin == Window(ow, output_width, input_width)
    IN  ScanWindow(data, input_ptr, input_width, hwin.lo, wwin.lo, hwin.hi,
                   wwin.lo, wwin.hi,
                   [maxval |-> NEG_INF,
                    maxindex |-> hwin.lo * input_width + wwin.lo])

\* what line 71 stores for maxindex: through scalar_t, then to int64
StoredIndex(maxindex, t) == ToInt64(ToScalar(maxindex, t))

\* one iteration of the parallel loop: plane c of output and indices
\* (both flat, contiguous)
ForwardPlane(out, ind, in, c, t) ==
    LET input_height == Size(in, -2)
        input_width == Size(in, -1)
        output_height == output_size[1]
        output_width == output_size[2]
        input_ptr == c * input_height * input_width
        output_ptr == c * output_height * output_width
        cells == [k \in 0 .. output_height * output_width - 1 |->
                    LocalMax(in.data, input_ptr, input_height, input_width,
                             output_height, output_width,
                             k \div output_width, k % output_width)]
        mine(k) == k >= output_ptr /\ k < output_ptr + output_height * output_width
    IN  [out |-> [k \in DOMAIN out |->
                    IF mine(k) THEN ToScalarValue(cells[k - output_ptr].maxval, t)
                    ELSE out[k]],
         ind |-> [k \in DOMAIN ind |->
                    IF mine(k) THEN StoredIndex(cells[k - output_ptr].maxindex, t)
                    ELSE ind[k]]]

----------------------------------------------------------------------------
(* at::vec::Vectorized: a vector is a function on 0 .. size-1 *)

Broadcast(x, V) == [j \in 0 .. V - 1 |-> x]

loadu(buf, d, V) == [j \in 0 .. V - 1 |-> buf[d + j]]

store(buf, d, vec) ==
    [k \in DOMAIN buf |->
        IF k >= d /\ k < d + Cardinality(DOMAIN vec) THEN vec[k - d] ELSE buf[k]]

\* (val_vec > maxval_vec) | val_vec.isnan()
MaskOf(val_vec, maxval_vec) ==
    [j \in DOMAIN val_vec |-> Replaces(val_vec[j], maxval_vec[j])]

blendv(a, b, mask) == [j \in DOMAIN a |-> IF mask[j] THEN b[j] ELSE a[j]]

\* int64 -> integer_t, the index lane: int32 next to float and
\* bfloat16, int64 next to double
ToIntegerT(x, t) ==
    IF t = "Double" \/ x <= Int32Max THEN x
    ELSE (x - Int32Max - 1) - Int32Max - 1

\* bfloat16 -> float and back
convert_bfloat16_float(v) == ToScalarValue(v, "Float")

convert_float_bfloat16(v) == ToScalarValue(v, "BFloat16")

----------------------------------------------------------------------------
(* cpu_adaptive_max_pool_channels_last<scalar_t>, one output position.   *)
(* s.out and s.ind are the channel lanes out[0..size) and ind[0..size)   *)
(* of the position, s.ibuf is index_buffer.  s.log lists, in program     *)
(* order, the accesses to ibuf, ind, out (and max) as [lo, lo + width).  *)

\* the access of one loop iteration, appended to the log; index is the
\* window position of a Pass II access, -1 elsewhere
Touch(s, pass, loop, buf, lo, width, index) ==
    [s EXCEPT !.log = Append(@, [pass |-> pass, loop |-> loop, buf |-> buf,
                                 lo |-> lo, width |-> width, index |-> index])]

\* a vector loop that never runs
ReduceLanesNever(s, data, in, d2, len, V, index, t) == s

\* Pass I, the vector loop
RECURSIVE InitLanes(_, _, _, _, _)
InitLanes(s, d1, len, V, index0) ==
    IF d1 >= len THEN s
    ELSE InitLanes(Touch(Touch([s EXCEPT !.ibuf = store(@, d1, Broadcast(index0, V)),
                                         !.out = store(@, d1, Broadcast(NEG_INF, V))],
                                   "I", "vec", "ibuf", d1, V, -1),
                             "I", "vec", "out", d1, V, -1),
                   d1 + V, len, V, index0)

\* Pass I, the scalar tail
RECURSIVE InitTail(_, _, _, _)
InitTail(s, d1, size, index0) ==
    IF d1 >= size THEN s
    ELSE InitTail(Touch(Touch([s EXCEPT !.ind[d1] = index0, !.out[d1] = NEG_INF],
                                  "I", "tail", "ind", d1, 1, -1),
                            "I", "tail", "out", d1, 1, -1),
                  d1 + 1, size, index0)

\* Pass II at one (ih, iw), the vector loop
RECURSIVE ReduceLanes(_, _, _, _, _, _, _, _)
ReduceLanes(s, data, in, d2, len, V, index, t) ==
    IF d2 >= len THEN s
    ELSE LET index_vec == Broadcast(ToIntegerT(index, t), V)
             val_vec == loadu(data, in + d2, V)
             maxindex_vec == loadu(s.ibuf, d2, V)
             maxval_vec == loadu(s.out, d2, V)
             mask == MaskOf(val_vec, maxval_vec)
             out_vec == blendv(maxval_vec, val_vec, mask)
             ind_vec == blendv(maxindex_vec, index_vec, mask)
         IN  ReduceLanes(Touch(Touch([s EXCEPT !.out = store(@, d2, out_vec),
                                               !.ibuf = store(@, d2, ind_vec)],
                                     "II", "vec", "ibuf", d2, V, index),
                               "II", "vec", "out", d2, V, index),
                         data, in, d2 + V, len, V, index, t)

\* Pass II at one (ih, iw), the scalar tail
RECURSIVE ReduceTail(_, _, _, _, _, _)
ReduceTail(s, data, in, d2, size, index) ==
    IF d2 >= size THEN s
    ELSE LET val == data[in + d2]
             maxindex == s.ind[d2]
             maxval == s.out[d2]
             mask == Replaces(val, maxval)
         IN  ReduceTail(Touch(Touch([s EXCEPT !.out[d2] = IF mask THEN val ELSE maxval,
                                              !.ind[d2] = IF mask THEN index ELSE maxindex],
                                    "II", "tail", "ind", d2, 1, index),
                              "II", "tail", "out", d2, 1, index),
                        data, in, d2 + 1, size, index)

\* Pass II, the loops over the window, from (ih, iw) on
RECURSIVE ReduceWindow(_, _, _, _, _, _, _, _, _, _, _, _)
ReduceWindow(s, data, nbase, input_width, channels, V, ih, iw, ih1, iw0, iw1, t) ==
    IF ih >= ih1 THEN s
    ELSE IF iw >= iw1
         THEN ReduceWindow(s, data, nbase, input_width, channels, V,
                           ih + 1, iw0, ih1, iw0, iw1, t)
         ELSE LET in == nbase + ih * input_width * channels + iw * channels
                  len == channels - (channels % V)
                  index == ih * input_width + iw
                  s1 == ReduceLanes(s, data, in, 0, len, V, index, t)
                  s2 == ReduceTail(s1, data, in, len, channels, index)
              IN  ReduceWindow(s2, data, nbase, input_width, channels, V,
                               ih, iw + 1, ih1, iw0, iw1, t)

\* at::vec::convert<integer_t, int64_t>(index_buffer, ind, len)
ConvertIndices(s, len) ==
    Touch(Touch([s EXCEPT !.ind = [d \in DOMAIN s.ind |->
                                     IF d < len THEN s.ibuf[d] ELSE s.ind[d]]],
                "convert", "vec", "ibuf", 0, len, -1),
          "convert", "vec", "ind", 0, len, -1)

\* the body of the loop over i for one position (n, oh, ow): the lanes of
\* out and ind it leaves
ChannelsLastUnit(out, ind, in, n, oh, ow, V, t) ==
    LET channels == Size(in, 1)
        input_height == Size(in, 2)
        input_width == Size(in, 3)
        hwin == Window(oh, output_size[1], input_height)
        wwin == Window(ow, output_size[2], input_width)
        size == channels
        len == size - (size % V)
        index0 == hwin.lo * input_width + wwin.lo
        s0 == [ibuf |-> [d \in 0 .. len - 1 |-> UNINIT], out |-> out, ind |-> ind,
               log |-> <<>>]
        s1 == InitTail(InitLanes(s0, 0, len, V, ToIntegerT(index0, t)), len, size, index0)
        s2 == ReduceWindow(s1, in.data, n * input_height * input_width * channels,
                           input_width, channels, V, hwin.lo, wwin.lo, hwin.hi,
                           wwin.lo, wwin.hi, t)
    IN  ConvertIndices(s2, len)

----------------------------------------------------------------------------
(* cpu_adaptive_max_pool_channels_last<at::BFloat16>, one output          *)
(* position.  s.max is the float scratch max[0..size); fV is fVec::size() *)
(* and iVec::size(), bVec::size() is 2 * fV.                              *)

\* Pass I, the vector loop (steps by fVec::size())
RECURSIVE InitLanesBF16(_, _, _, _, _)
InitLanesBF16(s, d1, len, fV, index0) ==
    IF d1 >= len THEN s
    ELSE InitLanesBF16(Touch(Touch([s EXCEPT !.ibuf = store(@, d1, Broadcast(index0, fV)),
                                             !.max = store(@, d1, Broadcast(NEG_INF, fV))],
                                       "I", "vec", "ibuf", d1, fV, -1),
                                 "I", "vec", "max", d1, fV, -1),
                       d1 + fV, len, fV, index0)

\* Pass I, the scalar tail
RECURSIVE InitTailBF16(_, _, _, _)
InitTailBF16(s, d1, size, index0) ==
    IF d1 >= size THEN s
    ELSE InitTailBF16(Touch(Touch([s EXCEPT !.ind[d1] = index0, !.max[d1] = NEG_INF],
                                      "I", "tail", "ind", d1, 1, -1),
                                "I", "tail", "max", d1, 1, -1),
                      d1 + 1, size, index0)

\* Pass II at one (ih, iw), the vector loop (steps by bVec::size())
RECURSIVE ReduceLanesBF16(_, _, _, _, _, _, _)
ReduceLanesBF16(s, data, in, d2, len, fV, index) ==
    IF d2 >= len THEN s
    ELSE LET index_ivec == Broadcast(ToIntegerT(index, "BFloat16"), fV)
             val_bvec == loadu(data, in + d2, 2 * fV)
             val_fvec0 == [j \in 0 .. fV - 1 |-> convert_bfloat16_float(val_bvec[j])]
             val_fvec1 == [j \in 0 .. fV - 1 |-> convert_bfloat16_float(val_bvec[fV + j])]
             maxindex_ivec0 == loadu(s.ibuf, d2, fV)
             maxindex_ivec1 == loadu(s.ibuf, d2 + fV, fV)
             maxval_fvec0 == loadu(s.max, d2, fV)
             maxval_fvec1 == loadu(s.max, d2 + fV, fV)
             mask0 == MaskOf(val_fvec0, maxval_fvec0)
             mask1 == MaskOf(val_fvec1, maxval_fvec1)
             max_fvec0 == blendv(maxval_fvec0, val_fvec0, mask0)
             max_fvec1 == blendv(maxval_fvec1, val_fvec1, mask1)
             ind_ivec0 == blendv(maxindex_ivec0, index_ivec, mask0)
             ind_ivec1 == blendv(maxindex_ivec1, index_ivec, mask1)
         IN  ReduceLanesBF16(
                 Touch(Touch(Touch(Touch(
                     [s EXCEPT !.max = store(store(@, d2, max_fvec0), d2 + fV, max_fvec1),
                               !.ibuf = store(store(@, d2, ind_ivec0), d2 + fV, ind_ivec1)],
                     "II", "vec", "ibuf", d2, fV, index),
                     "II", "vec", "ibuf", d2 + fV, fV, index),
                     "II", "vec", "max", d2, fV, index),
                     "II", "vec", "max", d2 + fV, fV, index),
                 data, in, d2 + 2 * fV, len, fV, index)

\* Pass II at one (ih, iw), the scalar tail
RECURSIVE ReduceTailBF16(_, _, _, _, _, _)
ReduceTailBF16(s, data, in, d2, size, index) ==
    IF d2 >= size THEN s
    ELSE LET val == convert_bfloat16_float(data[in + d2])
             maxindex == s.ind[d2]
             maxval == s.max[d2]
             mask == Replaces(val, maxval)
         IN  ReduceTailBF16(
                 Touch(Touch([s EXCEPT !.max[d2] = IF mask THEN val ELSE maxval,
                                       !.ind[d2] = IF mask THEN index ELSE maxindex],
                             "II", "tail", "ind", d2, 1, index),
                       "II", "tail", "max", d2, 1, index),
                 data, in, d2 + 1, size, index)

\* Pass II, the loops over the window, from (ih, iw) on
RECURSIVE ReduceWindowBF16(_, _, _, _, _, _, _, _, _, _, _)
ReduceWindowBF16(s, data, nbase, input_width, channels, fV, ih, iw, ih1, iw0, iw1) ==
    IF ih >= ih1 THEN s
    ELSE IF iw >= iw1
         THEN ReduceWindowBF16(s, data, nbase, input_width, channels, fV,
                               ih + 1, iw0, ih1, iw0, iw1)
         ELSE LET in == nbase + ih * input_width * channels + iw * channels
                  len == channels - (channels % (2 * fV))
                  index == ih * input_width + iw
                  s1 == ReduceLanesBF16(s, data, in, 0, len, fV, index)
                  s2 == ReduceTailBF16(s1, data, in, len, channels, index)
              IN  ReduceWindowBF16(s2, data, nbase, input_width, channels, fV,
                                   ih, iw + 1, ih1, iw0, iw1)

\* Pass III, the vector loop (steps by bVec::size())
RECURSIVE StoreMaxLanesBF16(_, _, _, _)
StoreMaxLanesBF16(s, d3, len, fV) ==
    IF d3 >= len THEN s
    ELSE LET max_fvec0 == loadu(s.max, d3, fV)
             max_fvec1 == loadu(s.max, d3 + fV, fV)
             max_bvec == [j \in 0 .. 2 * fV - 1 |->
                            convert_float_bfloat16(IF j < fV THEN max_fvec0[j]
                                                   ELSE max_fvec1[j - fV])]
         IN  StoreMaxLanesBF16(
                 Touch(Touch(Touch([s EXCEPT !.out = store(@, d3, max_bvec)],
                                   "III", "vec", "max", d3, fV, -1),
                             "III", "vec", "max", d3 + fV, fV, -1),
                       "III", "vec", "out", d3, 2 * fV, -1),
                 d3 + 2 * fV, len, fV)

\* Pass III, the scalar tail
RECURSIVE StoreMaxTailBF16(_, _, _)
StoreMaxTailBF16(s, d3, size) ==
    IF d3 >= size THEN s
    ELSE StoreMaxTailBF16(
             Touch(Touch([s EXCEPT !.out[d3] = ToScalarValue(s.max[d3], "BFloat16")],
                         "III", "tail", "max", d3, 1, -1),
                   "III", "tail", "out", d3, 1, -1),
             d3 + 1, size)

\* Pass III: max values from float to bfloat16
StoreMaxBF16(s, len, fV) ==
    StoreMaxTailBF16(StoreMaxLanesBF16(s, 0, len, fV), len, Cardinality(DOMAIN s.out))

ChannelsLastUnitBF16(out, ind, in, n, oh, ow, fV) ==
    LET channels == Size(in, 1)
        input_height == Size(in, 2)
        input_width == Size(in, 3)
        hwin == Window(oh, output_size[1], input_height)
        wwin == Window(ow, output_size[2], input_width)
        size == channels
        len == size - (size % (2 * fV))
        index0 == hwin.lo * input_width + wwin.lo
        s0 == [ibuf |-> [d \in 0 .. len - 1 |-> UNINIT],
               max |-> [d \in 0 .. size - 1 |-> UNINIT],
               out |-> out, ind |-> ind, log |-> <<>>]
        s1 == InitTailBF16(
                  InitLanesBF16(s0, 0, len, fV, ToIntegerT(index0, "BFloat16")),
                  len, size, index0)
        s2 == ReduceWindowBF16(s1, in.data,
                               n * input_height * input_width * channels,
                               input_width, channels, fV, hwin.lo, wwin.lo,
                               hwin.hi, wwin.lo, wwin.hi)
    IN  ConvertIndices(StoreMaxBF16(s2, len, fV), len)

----------------------------------------------------------------------------
(* at::parallel_for and the data-index iterators *)

\* the ways a pool of k threads may cut [lo, hi) into consecutive sub-ranges
RECURSIVE Splits(_, _, _)
Splits(lo, hi, k) ==
    {<<[begin |-> lo, end |-> hi]>>} \cup
    (IF k > 1
     THEN UNION {{<<[begin |-> lo, end |-> m]>> \o rest : rest \in Splits(m, hi, k - 1)} :
                 m \in lo + 1 .. hi - 1}
     ELSE {})

\* parallel_for(0, total, 0, body): body is invoked once per sub-range, on
\* no sub-range when the range is empty
Partitions(total, k) == IF total <= 0 THEN {<<>>} ELSE Splits(0, total, k)

\* at::native::data_index_init(offset, n, N, oh, OH, ow, OW)
data_index_init(offset, N, OH, OW) ==
    [ow |-> offset % OW, oh |-> (offset \div OW) % OH,
     n |-> (offset \div (OW * OH)) % N]

\* at::native::data_index_step(n, N, oh, OH, ow, OW)
data_index_step(cnt, N, OH, OW) ==
    IF cnt.ow + 1 # OW THEN [cnt EXCEPT !.ow = cnt.ow + 1]
    ELSE IF cnt.oh + 1 # OH THEN [cnt EXCEPT !.ow = 0, !.oh = cnt.oh + 1]
    ELSE [ow |-> 0, oh |-> 0, n |-> IF cnt.n + 1 = N THEN 0 ELSE cnt.n + 1]

\* a sub-range whose body has not begun
NewWorker(r) == [begin |-> r.begin, end |-> r.end, i |-> r.begin,
                 n |-> 0, oh |-> 0, ow |-> 0, k |-> 0, phase |-> "load", tmp |-> 0]

Launch(part) == [w \in DOMAIN part |-> NewWorker(part[w])]

AllJoined == \A w \in DOMAIN workers : workers[w].i = workers[w].end

----------------------------------------------------------------------------
(* adaptive_max_pool2d_out_cpu: the forward entry point *)

NoTensor == [sizes |-> <<>>, fmt |-> "Contiguous", dtype |-> "Float", data |-> <<>>]

\* the TORCH_CHECKs of the shell, in order; "" when all pass
ShellCheck(inp, osz) ==
    LET ndim == Len(inp.sizes)
    IN  IF ~(ndim = 3 \/ ndim = 4) THEN "rank"
        ELSE IF \E i \in 1 .. ndim - 1 : Size(inp, i) <= 0 THEN "empty"
        ELSE IF Len(osz) # 2 THEN "output_size"
        ELSE ""

\* sizes of output and indices
OutputSizes(inp, osz) ==
    IF Len(inp.sizes) = 3
    THEN <<Size(inp, 0), osz[1], osz[2]>>
    ELSE <<Size(inp, 0), Size(inp, 1), osz[1], osz[2]>>

\* H * W <= std::numeric_limits<integer_t>::max(); int64's maximum is
\* beyond the product of any two extents of the model
IndexLaneFits(inp) ==
    inp.dtype = "Double" \/ MulLeq(Size(inp, 2), Size(inp, 3), Int32Max)

\* adaptive_max_pool2d_kernel_impl and the kernel's checks ahead of
\* parallel_for; "" when the kernel launches
KernelCheck(inp) ==
    CASE inp.fmt = "Contiguous" -> ""
      [] inp.fmt = "ChannelsLast" ->
            IF Len(inp.sizes) # 4 THEN "channels_last_rank"
            ELSE IF ~IndexLaneFits(inp) THEN "overflow"
            ELSE ""
      [] OTHER -> "memory_format"

\* the range handed to parallel_for
ForwardRange(inp, osz) ==
    IF inp.fmt = "Contiguous"
    THEN (IF Len(inp.sizes) = 3 THEN Size(inp, 0) ELSE Size(inp, 0) * Size(inp, 1))
    ELSE Size(inp, 0) * osz[1] * osz[2]

Fail(e) ==
    /\ pc' = "error"
    /\ error' = e

ForwardEnter ==
    /\ op = "forward"
    /\ pc = "entry"
    /\ LET e == ShellCheck(input, output_size)
       IN  IF e # ""
           THEN Fail(e) /\ UNCHANGED <<output, indices, writers>>
           ELSE /\ pc' = "allocated"
                /\ error' = ""
                /\ output' = Empty(OutputSizes(input, output_size), input.fmt, input.dtype)
                /\ indices' = Empty(OutputSizes(input, output_size), input.fmt, "Long")
                /\ writers' = [k \in 0 .. Numel(OutputSizes(input, output_size)) - 1 |-> {}]
    /\ UNCHANGED <<op, input, output_size, grad_output, grad_input, num_threads,
                   lanes, workers, started, ext, win>>

ForwardLaunch ==
    /\ op = "forward"
    /\ pc = "allocated"
    /\ LET e == KernelCheck(input)
       IN  IF e # ""
           THEN Fail(e) /\ UNCHANGED workers
           ELSE /\ pc' = "parallel"
                /\ error' = ""
                /\ \E part \in Partitions(ForwardRange(input, output_size), num_threads) :
                      workers' = Launch(part)
    /\ UNCHANGED <<op, input, output_size, output, indices, grad_output, grad_input,
                   num_threads, lanes, started, writers, ext, win>>

\* the worker's loop body for plane c of the contiguous kernel
ContiguousBody(w) ==
    LET r == ForwardPlane(output.data, indices.data, Contiguous(input, "Contiguous"),
                          workers[w].i, input.dtype)
        cells == output_size[1] * output_size[2]
        c == workers[w].i
    IN  /\ output' = [output EXCEPT !.data = r.out]
        /\ indices' = [indices EXCEPT !.data = r.ind]
        /\ writers' = [k \in DOMAIN writers |->
                          IF k >= c * cells /\ k < (c + 1) * cells
                          THEN writers[k] \cup {<<w, c>>} ELSE writers[k]]
        /\ workers' = [workers EXCEPT ![w].i = @ + 1]

\* counters never stepped: those of begin at every unit
CurrentIndexRestart(me) ==
    data_index_init(me.begin, Size(input, 0), output_size[1], output_size[2])

\* (n, oh, ow) as a channels-last worker holds them on entering unit i:
\* from data_index_init at begin, from data_index_step after that
CurrentIndex(me) ==
    IF me.i = me.begin
    THEN data_index_init(me.begin, Size(input, 0), output_size[1], output_size[2])
    ELSE [n |-> me.n, oh |-> me.oh, ow |-> me.ow]

\* the worker's loop body for position i of the channels-last kernels
ChannelsLastBody(w) ==
    LET me == workers[w]
        i == me.i
        channels == Size(input, 1)
        nbatch == Size(input, 0)
        cnt == CurrentIndex(me)
        out == [d \in 0 .. channels - 1 |-> output.data[i * channels + d]]
        ind == [d \in 0 .. channels - 1 |-> indices.data[i * channels + d]]
        in == Contiguous(input, "ChannelsLast")
        s == IF input.dtype = "BFloat16"
             THEN ChannelsLastUnitBF16(out, ind, in, cnt.n, cnt.oh, cnt.ow, lanes)
             ELSE ChannelsLastUnit(out, ind, in, cnt.n, cnt.oh, cnt.ow, lanes, input.dtype)
        nxt == data_index_step(cnt, nbatch, output_size[1], output_size[2])
        mine(k) == k >= i * channels /\ k < (i + 1) * channels
    IN  /\ output' = [output EXCEPT !.data =
                        [k \in DOMAIN @ |-> IF mine(k) THEN s.out[k - i * channels] ELSE @[k]]]
        /\ indices' = [indices EXCEPT !.data =
                        [k \in DOMAIN @ |-> IF mine(k) THEN s.ind[k - i * channels] ELSE @[k]]]
        /\ writers' = [k \in DOMAIN writers |->
                          IF mine(k) THEN writers[k] \cup {<<w, i>>} ELSE writers[k]]
        /\ workers' = [workers EXCEPT ![w].i = @ + 1, ![w].n = nxt.n,
                                      ![w].oh = nxt.oh, ![w].ow = nxt.ow]

\* a lambda that raises in its body
BodyCheckThrows(i) == "body"

\* what the body of a parallel_for lambda raises at unit i: the lambdas
\* hold no TORCH_CHECK
BodyCheck(i) == ""

ForwardWorker(w) ==
    /\ op = "forward"
    /\ pc = "parallel"
    /\ workers[w].i < workers[w].end
    /\ IF BodyCheck(workers[w].i) # ""
       THEN Fail(BodyCheck(workers[w].i)) /\ UNCHANGED <<output, indices, workers, writers>>
       ELSE /\ IF input.fmt = "Contiguous" THEN ContiguousBody(w) ELSE ChannelsLastBody(w)
            /\ UNCHANGED <<pc, error>>
    /\ started' = TRUE
    /\ UNCHANGED <<op, input, output_size, grad_output, grad_input,
                   num_threads, lanes, ext, win>>

ForwardReturn ==
    /\ op = "forward"
    /\ pc = "parallel"
    /\ AllJoined
    /\ pc' = "done"
    /\ UNCHANGED <<op, error, input, output_size, output, indices, grad_output,
                   grad_input, num_threads, lanes, workers, started, writers, ext, win>>

NextForward ==
    \/ ForwardEnter
    \/ ForwardLaunch
    \/ \E w \in DOMAIN workers : ForwardWorker(w)
    \/ ForwardReturn

----------------------------------------------------------------------------
(* adaptive_max_pool2d_backward_out_cpu and the backward kernels *)

\* the TORCH_CHECKs of the backward shell, in order; "" when all pass
BackwardShellCheck(gout, inp) ==
    LET ndim == Len(gout.sizes)
    IN  IF ~(ndim = 3 \/ ndim = 4) THEN "rank"
        ELSE IF \E i \in 1 .. ndim - 1 : Size(gout, i) <= 0 THEN "empty"
        ELSE IF inp.dtype # gout.dtype THEN "dtype"
        ELSE ""

\* at::empty(input.sizes(), ...memory_format(input.suggest_memory_format())).zero_()
Zeros(sizes, fmt, t) ==
    [sizes |-> sizes, fmt |-> fmt, dtype |-> t,
     data |-> [k \in 0 .. Numel(sizes) - 1 |-> 0]]

\* adaptive_max_pool2d_backward_kernel_impl and the kernel's check ahead
\* of parallel_for; "" when the kernel launches
BackwardKernelCheck(gin, gout) ==
    CASE gin.fmt = "Contiguous" -> ""
      [] gin.fmt = "ChannelsLast" ->
            IF Len(gout.sizes) # 4 THEN "channels_last_rank" ELSE ""
      [] OTHER -> "memory_format"

\* the range handed to parallel_for: planes, or batch entries
BackwardRange(gin, gout) ==
    IF gin.fmt = "Contiguous"
    THEN (IF Len(gout.sizes) = 3 THEN Size(gout, 0) ELSE Size(gout, 0) * Size(gout, 1))
    ELSE Size(gin, 0)

\* inner iterations of one unit: (oh, ow), or (oh, ow, c)
BackwardInner(gin, gout) ==
    IF gin.fmt = "Contiguous"
    THEN Size(gout, -2) * Size(gout, -1)
    ELSE Size(gout, 2) * Size(gout, 3) * Size(gin, 1)

\* offset into grad_output and indices of inner iteration k of unit u
BackwardSource(gin, gout, u, k) ==
    IF gin.fmt = "Contiguous"
    THEN LET output_width == Size(gout, -1)
             index == (k \div output_width) * output_width + (k % output_width)
         IN  u * Size(gout, -2) * output_width + index
    ELSE LET channels == Size(gin, 1)
             output_width == Size(gout, 3)
             oh == k \div (output_width * channels)
             ow == (k \div channels) % output_width
             c == k % channels
         IN  u * Size(gout, 2) * output_width * channels
               + oh * output_width * channels + ow * channels + c

\* offset into grad_input that iteration k of unit u accumulates into
BackwardTarget(gin, u, k, maxindex) ==
    IF gin.fmt = "Contiguous"
    THEN u * Size(gin, -2) * Size(gin, -1) + maxindex
    ELSE LET channels == Size(gin, 1)
         IN  u * Size(gin, 2) * Size(gin, 3) * channels
               + maxindex * channels + (k % channels)

\* = in place of +=
AccumulateAssigns(old, g, t) == g

\* the value += leaves: the sum, rounded to scalar_t
Accumulate(old, g, t) == ToScalarValue(old + g, t)

BackwardEnter ==
    /\ op = "backward"
    /\ pc = "entry"
    /\ LET e == BackwardShellCheck(grad_output, input)
       IN  IF e # ""
           THEN Fail(e) /\ UNCHANGED <<grad_input, writers>>
           ELSE /\ pc' = "allocated"
                /\ error' = ""
                /\ grad_input' = Zeros(input.sizes, input.fmt, input.dtype)
                /\ writers' = [k \in 0 .. Numel(input.sizes) - 1 |-> {}]
    /\ UNCHANGED <<op, input, output_size, output, indices, grad_output, num_threads,
                   lanes, workers, started, ext, win>>

BackwardLaunch ==
    /\ op = "backward"
    /\ pc = "allocated"
    /\ LET e == BackwardKernelCheck(grad_input, grad_output)
       IN  IF e # ""
           THEN Fail(e) /\ UNCHANGED workers
           ELSE /\ pc' = "parallel"
                /\ error' = ""
                /\ \E part \in Partitions(BackwardRange(grad_input, grad_output),
                                          num_threads) :
                      workers' = Launch(part)
    /\ UNCHANGED <<op, input, output_size, output, indices, grad_output, grad_input,
                   num_threads, lanes, started, writers, ext, win>>

\* one half of "grad_input_ptr[...] += ...": the load, or the add and store
BackwardWorker(w) ==
    /\ op = "backward"
    /\ pc = "parallel"
    /\ workers[w].i < workers[w].end
    /\ IF BodyCheck(workers[w].i) # ""
       THEN Fail(BodyCheck(workers[w].i)) /\ UNCHANGED <<grad_input, workers, writers>>
       ELSE
         LET me == workers[w]
             gout == Contiguous(grad_output, grad_input.fmt)
             ind == Contiguous(indices, grad_input.fmt)
             src == BackwardSource(grad_input, gout, me.i, me.k)
             maxindex == ind.data[src]
             target == BackwardTarget(grad_input, me.i, me.k, maxindex)
             last == me.k + 1 = BackwardInner(grad_input, gout)
         IN  /\ IF me.phase = "load"
                THEN /\ workers' = [workers EXCEPT ![w].tmp = grad_input.data[target],
                                                   ![w].phase = "store"]
                     /\ UNCHANGED <<grad_input, writers>>
                ELSE /\ grad_input' = [grad_input EXCEPT !.data[target] =
                                        Accumulate(me.tmp, gout.data[src], grad_input.dtype)]
                     /\ writers' = [writers EXCEPT ![target] = @ \cup {w}]
                     /\ workers' = [workers EXCEPT ![w].phase = "load",
                                                   ![w].tmp = 0,
                                                   ![w].k = IF last THEN 0 ELSE me.k + 1,
                                                   ![w].i = IF last THEN me.i + 1 ELSE me.i]
             /\ UNCHANGED <<pc, error>>
    /\ started' = TRUE
    /\ UNCHANGED <<op, input, output_size, output, indices, grad_output,
                   num_threads, lanes, ext, win>>

BackwardReturn ==
    /\ op = "backward"
    /\ pc = "parallel"
    /\ AllJoined
    /\ pc' = "done"
    /\ UNCHANGED <<op, error, input, output_size, output, indices, grad_output,
                   grad_input, num_threads, lanes, workers, started, writers, ext, win>>

NextBackward ==
    \/ BackwardEnter
    \/ BackwardLaunch
    \/ \E w \in DOMAIN workers : BackwardWorker(w)
    \/ BackwardReturn

----------------------------------------------------------------------------
(* The loop over the output rows (or columns) of the forward kernels *)

\* one iteration: the window of the next output index
WindowScan ==
    /\ op = "window"
    /\ Len(win) < ext[2]
    /\ win' = Append(win, Window(Len(win), ext[2], ext[1]))
    /\ UNCHANGED <<op, pc, error, input, output_size, output, indices, grad_output,
                   grad_input, num_threads, lanes, workers, started, writers, ext>>

NextWindow == WindowScan

----------------------------------------------------------------------------
(* The calls the model starts from *)

DTypes == {"Float", "Double", "BFloat16"}

Vals == {NEG_INF, 1, 2, NAN}

\* rank and memory format of a dense input
Layouts == {<<3, "Contiguous">>, <<4, "Contiguous">>, <<4, "ChannelsLast">>}

ShapeOf(rank, N, C, H, W) == IF rank = 3 THEN <<C, H, W>> ELSE <<N, C, H, W>>

\* a dense tensor whose plane (n, c) holds pattern pat, rotated by the
\* plane's number so that neighbouring planes differ
MakeTensor(sizes, fmt, t, pat) ==
    LET hw == sizes[Len(sizes) - 1] * sizes[Len(sizes)]
    IN  [sizes |-> sizes, fmt |-> fmt, dtype |-> t,
         data |-> [k \in 0 .. Numel(sizes) - 1 |->
                     LET p == CoordsOf(sizes, fmt, k)
                         plane == IF Len(sizes) = 3 THEN p.c ELSE p.n * sizes[2] + p.c
                     IN  pat[(p.h * sizes[Len(sizes)] + p.w + plane) % hw]]]

\* a tensor of sizes too large to hold here; no element of it is read
Unmaterialised(sizes, fmt, t) ==
    [sizes |-> sizes, fmt |-> fmt, dtype |-> t, data |-> <<>>]

PlaneShapes == {<<1, 1>>, <<1, 2>>, <<2, 1>>, <<2, 2>>, <<1, 3>>, <<3, 1>>}

OutSizes(hw) ==
    IF hw = <<1, 1>> THEN {<<1, 1>>, <<2, 2>>}
    ELSE {<<oh, ow>> : oh \in 1 .. Min(2, hw[1]), ow \in 1 .. Min(2, hw[2])}

Ramp(hw) == [k \in 0 .. hw - 1 |-> 1 + (k % 2)]

OneNan(hw) == [k \in 0 .. hw - 1 |-> IF k = 0 THEN NAN ELSE 1]

\* a plane of BigH * BigW elements, all 1 but for one value at p
Peak(p, v) == [k \in 0 .. BigH * BigW - 1 |-> IF k = p THEN v ELSE 1]

\* ranks 2 to 5, extents 0 to m
ShellShapes(m) ==
    {<<1, 1>>} \cup [1 .. 3 -> 0 .. m] \cup [1 .. 4 -> 0 .. m] \cup {<<1, 1, 1, 1, 1>>}

\* the memory formats a tensor of these sizes can report
FormatsOf(sizes) ==
    {"Contiguous"}
    \cup (IF Len(sizes) = 4 /\ \A i \in 1 .. 4 : sizes[i] > 0 THEN {"ChannelsLast"} ELSE {})
    \cup (IF Len(sizes) = 5 THEN {"ChannelsLast3d"} ELSE {})

\* a tensor filled with v
Filled(sizes, fmt, t, v) ==
    [sizes |-> sizes, fmt |-> fmt, dtype |-> t,
     data |-> [k \in 0 .. Numel(sizes) - 1 |-> v]]

InitCall(o, inp, osz, gout, ind, thr, ln) ==
    /\ op = o
    /\ pc = "entry"
    /\ error = ""
    /\ input = inp
    /\ output_size = osz
    /\ output = NoTensor
    /\ indices = ind
    /\ grad_output = gout
    /\ grad_input = NoTensor
    /\ num_threads = thr
    /\ lanes = ln
    /\ workers = <<>>
    /\ started = FALSE
    /\ writers = <<>>
    /\ ext = <<0, 0>>
    /\ win = <<>>

InitForward(inp, osz, thr, ln) ==
    InitCall("forward", inp, osz, NoTensor, NoTensor, thr, ln)

\* the vector width matters to the channels-last kernels only
LanesOf(fmt) == IF fmt = "ChannelsLast" THEN 1 .. MaxLanes ELSE {1}

\* every content of one small plane, one thread
InitRich ==
    \E hw \in PlaneShapes, l \in Layouts, t \in DTypes, C \in 1 .. 2 :
      \E pat \in [0 .. hw[1] * hw[2] - 1 -> Vals], osz \in OutSizes(hw),
         ln \in LanesOf(l[2]) :
        InitForward(MakeTensor(ShapeOf(l[1], 1, C, hw[1], hw[2]), l[2], t, pat),
                    osz, 1, ln)

\* every shape up to the bounds, a few contents, every pool size
InitShapes ==
    \E hw \in {<<1, 2>>, <<2, 2>>}, l \in Layouts, t \in DTypes,
       N \in 1 .. MaxN, C \in 1 .. MaxC, thr \in 1 .. MaxThreads :
      \E pat \in {Ramp(hw[1] * hw[2]), OneNan(hw[1] * hw[2])},
         osz \in {<<1, 1>>, <<1, 2>>}, ln \in LanesOf(l[2]) :
        /\ l[1] = 3 => N = 1
        /\ N * C <= MaxPlanes
        /\ InitForward(MakeTensor(ShapeOf(l[1], N, C, hw[1], hw[2]), l[2], t, pat),
                       osz, thr, ln)

\* one plane of BigH * BigW elements with a larger value or a NaN among
\* the last four; one output cell per row or per element
InitBig ==
    \E p \in BigH * BigW - 4 .. BigH * BigW - 1, v \in {2, NAN},
       osz \in {<<BigH, 1>>, <<BigH, BigW>>}, l \in Layouts, t \in DTypes :
      \E ln \in LanesOf(l[2]) :
        InitForward(MakeTensor(ShapeOf(l[1], 1, 1, BigH, BigW), l[2], t, Peak(p, v)),
                    osz, 1, ln)

\* every rank and empty dimension, output_size of 1 to 3 entries
InitShell ==
    \E sizes \in ShellShapes(1), osz \in {<<1>>, <<1, 1>>, <<1, 1, 1>>},
       thr \in 1 .. MaxThreads :
      \E fmt \in FormatsOf(sizes) :
        InitForward(Filled(sizes, fmt, "Float", 1), osz, thr, 1)

\* planes whose H * W exceeds the int32 index lane
InitHuge ==
    \E t \in {"Float", "BFloat16"} :
        InitForward(Unmaterialised(<<1, 1, HugeExtent, HugeExtent>>, "ChannelsLast", t),
                    <<1, 1>>, 1, 1)

Init == InitRich \/ InitShapes \/ InitBig \/ InitShell \/ InitHuge

Spec == Init /\ [][NextForward]_vars

\* channels-last calls: every channel count against every vector width,
\* every thread count, windows of two positions
InitChannelsLast ==
    \E osz \in {<<1, 2>>, <<2, 1>>}, t \in {"Float", "BFloat16"}, N \in 1 .. MaxN,
       C \in 1 .. MaxChannels, thr \in 1 .. MaxThreads, ln \in 1 .. MaxLanes :
        InitForward(MakeTensor(<<N, C, 2, 2>>, "ChannelsLast", t, Ramp(4)), osz, thr, ln)

SpecChannelsLast == InitChannelsLast /\ [][NextForward]_vars

----------------------------------------------------------------------------
(* Backward calls *)

GradVals == {1, 2}

\* output_size is that of the forward call grad_output belongs to
InitBackward(inp, gout, ind, thr) ==
    InitCall("backward", inp, <<Size(gout, -2), Size(gout, -1)>>, gout, ind, thr, 1)

\* the formats grad_output and indices can arrive in, given the input's
ArrivingFormats(l) == IF l[1] = 4 THEN {"Contiguous", "ChannelsLast"} ELSE {"Contiguous"}

\* every index and gradient content of one small output plane, one thread
InitBackwardRich ==
    \E hw \in {<<1, 2>>, <<2, 2>>}, ohw \in {<<1, 1>>, <<1, 2>>}, l \in Layouts,
       t \in DTypes, C \in 1 .. 2 :
      \E gfmt \in ArrivingFormats(l), ifmt \in ArrivingFormats(l),
         ipat \in [0 .. ohw[1] * ohw[2] - 1 -> 0 .. hw[1] * hw[2] - 1],
         gpat \in [0 .. ohw[1] * ohw[2] - 1 -> GradVals] :
        InitBackward(Filled(ShapeOf(l[1], 1, C, hw[1], hw[2]), l[2], t, 1),
                     MakeTensor(ShapeOf(l[1], 1, C, ohw[1], ohw[2]), gfmt, t, gpat),
                     MakeTensor(ShapeOf(l[1], 1, C, ohw[1], ohw[2]), ifmt, "Long", ipat),
                     1)

\* every shape up to the bounds, every thread count, a 1 x 1 grad_output
InitBackwardShapes ==
    \E l \in Layouts, N \in 1 .. MaxN, C \in 1 .. MaxC, thr \in 1 .. MaxThreads :
      \E gfmt \in ArrivingFormats(l), i \in 0 .. 1, g \in GradVals :
        /\ l[1] = 3 => N = 1
        /\ N * C <= MaxPlanes
        /\ InitBackward(Filled(ShapeOf(l[1], N, C, 1, 2), l[2], "Float", 1),
                        Filled(ShapeOf(l[1], N, C, 1, 1), gfmt, "Float", g),
                        Filled(ShapeOf(l[1], N, C, 1, 1), gfmt, "Long", i),
                        thr)

\* backward on what forward returned: two BFloat16 planes of BigH * BigW
\* elements pooled to one cell per row, the first plane's maximum near
\* its end; indices are the contiguous forward kernel's
InitBackwardAfterForward ==
    \E p \in {BigH * BigW - 3, BigH * BigW - 1}, thr \in 1 .. MaxThreads, g \in GradVals :
        LET in == MakeTensor(<<2, BigH, BigW>>, "Contiguous", "BFloat16", Peak(p, 2))
            ind == [k \in 0 .. 2 * BigH - 1 |->
                      StoredIndex(LocalMax(in.data, (k \div BigH) * BigH * BigW,
                                           BigH, BigW, BigH, 1, k % BigH, 0).maxindex,
                                  in.dtype)]
        IN  InitBackward(in, Filled(<<2, BigH, 1>>, "Contiguous", "BFloat16", g),
                         [sizes |-> <<2, BigH, 1>>, fmt |-> "Contiguous",
                          dtype |-> "Long", data |-> ind],
                         thr)

InitBackwardCalls == InitBackwardRich \/ InitBackwardShapes \/ InitBackwardAfterForward

SpecBackward == InitBackwardCalls /\ [][NextBackward]_vars

----------------------------------------------------------------------------
(* Calls that exercise the argument checks, forward and backward *)

\* the input a grad_output of these sizes can belong to: the same rank
\* with a 2 x 2 plane, or (rank 3 only) a batched channels-last input
InputsFor(gsizes) ==
    LET r == Len(gsizes)
    IN  IF r \in {3, 4}
        THEN LET same == [i \in 1 .. r |-> IF i > r - 2 THEN 2 ELSE gsizes[i]]
             IN  {Filled(same, fmt, "Float", 1) : fmt \in FormatsOf(same)}
                 \cup (IF r = 3 /\ gsizes[1] > 0
                       THEN {Filled(<<1>> \o same, "ChannelsLast", "Float", 1)}
                       ELSE {})
        ELSE {Filled(gsizes, "Contiguous", "Float", 1)}

InitBackwardShell ==
    \E gsizes \in ShellShapes(2), t \in {"Float", "Double"}, thr \in 1 .. MaxThreads :
      \E inp \in InputsFor(gsizes) :
        InitBackward(inp, Filled(gsizes, "Contiguous", t, 1),
                     Filled(gsizes, "Contiguous", "Long", 0), thr)

InitShellCalls == InitShell \/ InitHuge \/ InitBackwardShell

NextShell == NextForward \/ NextBackward

\* a call that has started runs on: the caller waits for it, and
\* parallel_for returns only when every worker has finished its range
SpecShell == InitShellCalls /\ [][NextShell]_vars /\ WF_vars(NextShell)

----------------------------------------------------------------------------
(* Window scans *)

\* an input extent I and an output extent O, no window computed yet
InitWindow ==
    \E I \in 1 .. MaxExtent, O \in 1 .. MaxExtent :
        /\ op = "window"
        /\ pc = "entry"
        /\ error = ""
        /\ input = NoTensor
        /\ output_size = <<>>
        /\ output = NoTensor
        /\ indices = NoTensor
        /\ grad_output = NoTensor
        /\ grad_input = NoTensor
        /\ num_threads = 1
        /\ lanes = 1
        /\ workers = <<>>
        /\ started = FALSE
        /\ writers = <<>>
        /\ ext = <<I, O>>
        /\ win = <<>>

SpecWindow == InitWindow /\ [][NextWindow]_vars

----------------------------------------------------------------------------
(* What the forward results are checked against *)

\* the (n, c, oh, ow) of the output of a finished forward call
OutputCells ==
    LET r == Len(input.sizes)
    IN  {<<n, c, oh, ow>> : n \in 0 .. (IF r = 3 THEN 1 ELSE Size(input, 0)) - 1,
                             c \in 0 .. Size(input, r - 3) - 1,
                             oh \in 0 .. output_size[1] - 1,
                             ow \in 0 .. output_size[2] - 1}

InputH == Size(input, -2)
InputW == Size(input, -1)

\* flat plane indices ih * W + iw of the window of output cell (oh, ow)
WindowIndices(oh, ow) ==
    {ih * InputW + iw :
        ih \in start_index(oh, output_size[1], InputH) ..
               end_index(oh, output_size[1], InputH) - 1,
        iw \in start_index(ow, output_size[2], InputW) ..
               end_index(ow, output_size[2], InputW) - 1}

\* input[n, c, j div W, j mod W]
InputAt(n, c, j) == At(input, n, c, j \div InputW, j % InputW)

WindowHasNan(n, c, oh, ow) == \E j \in WindowIndices(oh, ow) : isnan(InputAt(n, c, j))

SetMin(S) == CHOOSE x \in S : \A y \in S : x <= y
SetMax(S) == CHOOSE x \in S : \A y \in S : x >= y

ForwardDone == op = "forward" /\ pc = "done"

\* C1: after forward every stored index is in [0, H*W) and output equals
\* the input element the stored index names
IndexInRangeAndNamesOutput ==
    ForwardDone =>
        \A q \in OutputCells :
            LET index == At(indices, q[1], q[2], q[3], q[4])
            IN  /\ 0 <= index
                /\ index < InputH * InputW
                /\ At(output, q[1], q[2], q[3], q[4]) = InputAt(q[1], q[2], index)

\* C2: after forward every stored index decodes to a position inside the
\* input window of its own output cell
IndexInsideWindow ==
    ForwardDone =>
        \A q \in OutputCells :
            LET index == At(indices, q[1], q[2], q[3], q[4])
                ih == index \div InputW
                iw == index % InputW
            IN  /\ start_index(q[3], output_size[1], InputH) <= ih
                /\ ih < end_index(q[3], output_size[1], InputH)
                /\ start_index(q[4], output_size[2], InputW) <= iw
                /\ iw < end_index(q[4], output_size[2], InputW)

\* C3: a window without NaN yields its maximum, and the index of the
\* earliest position in scan order holding it
MaxAndEarliestIndex ==
    ForwardDone =>
        \A q \in OutputCells :
            ~WindowHasNan(q[1], q[2], q[3], q[4]) =>
                LET win_ == WindowIndices(q[3], q[4])
                    m == SetMax({InputAt(q[1], q[2], j) : j \in win_})
                IN  /\ At(output, q[1], q[2], q[3], q[4]) = m
                    /\ At(indices, q[1], q[2], q[3], q[4]) =
                           SetMin({j \in win_ : InputAt(q[1], q[2], j) = m})

\* C4: a window with a NaN yields NaN, and the index of the last NaN in
\* scan order
NanAndLastNanIndex ==
    ForwardDone =>
        \A q \in OutputCells :
            WindowHasNan(q[1], q[2], q[3], q[4]) =>
                /\ isnan(At(output, q[1], q[2], q[3], q[4]))
                /\ At(indices, q[1], q[2], q[3], q[4]) =
                       SetMax({j \in WindowIndices(q[3], q[4]) : isnan(InputAt(q[1], q[2], j))})

\* the contiguous kernel run on all planes of in: element k of the
\* (contiguous) output and indices
RunContiguous(in, k) ==
    LET cells == output_size[1] * output_size[2]
        r == LocalMax(in.data, (k \div cells) * Size(in, -2) * Size(in, -1),
                      Size(in, -2), Size(in, -1), output_size[1], output_size[2],
                      (k % cells) \div output_size[2], k % output_size[2])
    IN  [out |-> ToScalarValue(r.maxval, in.dtype),
         ind |-> StoredIndex(r.maxindex, in.dtype)]

\* the channels-last kernel run on all positions of in: element k of the
\* (channels-last) output and indices
RunChannelsLast(in, k) ==
    LET channels == Size(in, 1)
        cnt == data_index_init(k \div channels, Size(in, 0), output_size[1], output_size[2])
        blank == [d \in 0 .. channels - 1 |-> UNINIT]
        s == IF in.dtype = "BFloat16"
             THEN ChannelsLastUnitBF16(blank, blank, in, cnt.n, cnt.oh, cnt.ow, lanes)
             ELSE ChannelsLastUnit(blank, blank, in, cnt.n, cnt.oh, cnt.ow, lanes, in.dtype)
    IN  [out |-> s.out[k % channels], ind |-> s.ind[k % channels]]

\* C5: on a 4-D input the two kernels, each on its own layout of the
\* input, give the same output values and the same indices
LayoutsAgree ==
    (ForwardDone /\ Len(input.sizes) = 4) =>
        LET other == IF input.fmt = "Contiguous" THEN "ChannelsLast" ELSE "Contiguous"
            in == Contiguous(input, other)
            osizes == OutputSizes(input, output_size)
        IN  \A q \in OutputCells :
                LET k == StorageOffset(osizes, other, q[1], q[2], q[3], q[4])
                    r == IF other = "Contiguous" THEN RunContiguous(in, k)
                         ELSE RunChannelsLast(in, k)
                IN  /\ At(output, q[1], q[2], q[3], q[4]) = r.out
                    /\ At(indices, q[1], q[2], q[3], q[4]) = r.ind

\* C7: forward fails on a 3-D or 4-D input with an empty C, H or W, and
\* an empty batch dimension alone is no error
EmptyNonBatchFails ==
    (op = "forward" /\ pc # "entry" /\ Len(input.sizes) \in {3, 4}) =>
        LET r == Len(input.sizes)
        IN  /\ (\E i \in r - 2 .. r : input.sizes[i] = 0) => pc = "error"
            /\ (r = 4 /\ input.sizes[1] = 0 /\ Len(output_size) = 2
                      /\ \A i \in 2 .. 4 : input.sizes[i] > 0) => pc # "error"

----------------------------------------------------------------------------
(* Work units of the channels-last forward kernel *)

\* the row-major decomposition of unit i
RowMajor(i) ==
    [ow |-> i % output_size[2],
     oh |-> (i \div output_size[2]) % output_size[1],
     n |-> i \div (output_size[1] * output_size[2])]

\* the loop body run at position at = (n, oh, ow) on fresh output lanes
UnitAt(at) ==
    LET in == Contiguous(input, "ChannelsLast")
        blank == [d \in 0 .. Size(in, 1) - 1 |-> UNINIT]
    IN  IF in.dtype = "BFloat16"
        THEN ChannelsLastUnitBF16(blank, blank, in, at.n, at.oh, at.ow, lanes)
        ELSE ChannelsLastUnit(blank, blank, in, at.n, at.oh, at.ow, lanes, in.dtype)

\* what the kernel leaves at offset k of output and indices when unit
\* k div C is computed at its row-major (n, oh, ow)
ResultAt(k) ==
    LET channels == Size(input, 1)
        s == UnitAt(RowMajor(k \div channels))
    IN  [out |-> s.out[k % channels], ind |-> s.ind[k % channels]]

\* C11: in the channels-last forward kernel the counters (n, oh, ow) of
\* every worker equal the row-major decomposition of its current unit,
\* whatever the partition; every output offset is written once, by the
\* worker owning its unit, and the finished output and indices are those
\* of the unit's own window, the same for every partition and interleaving
UnitsAreRowMajor ==
    (op = "forward" /\ input.fmt = "ChannelsLast" /\ pc \in {"parallel", "done"}) =>
        /\ \A w \in DOMAIN workers :
              workers[w].i < workers[w].end =>
                  CurrentIndex(workers[w]) = RowMajor(workers[w].i)
        /\ \A k \in DOMAIN writers :
              /\ Cardinality(writers[k]) <= 1
              /\ \A p \in writers[k] :
                    /\ p[2] = k \div Size(input, 1)
                    /\ workers[p[1]].begin <= p[2]
                    /\ p[2] < workers[p[1]].end
        /\ pc = "done" =>
              \A k \in DOMAIN writers :
                  /\ Cardinality(writers[k]) = 1
                  /\ output.data[k] = ResultAt(k).out
                  /\ indices.data[k] = ResultAt(k).ind

\* a finished call of two batch entries and two columns whose second
\* worker began in the middle of a row and went on into the next entry
SecondWorkerStartsMidRow ==
    /\ op = "forward" /\ input.fmt = "ChannelsLast" /\ pc = "done"
    /\ output_size = <<1, 2>>
    /\ Len(workers) = 2
    /\ workers[2].begin = 1
    /\ workers[2].end = 4

----------------------------------------------------------------------------
(* Channel lanes and scratch buffers of the channels-last forward kernels *)

\* elements per vector of the kernel's scalar type: Vec::size(), or
\* bVec::size() = 2 * fVec::size()
VecSize == IF input.dtype = "BFloat16" THEN 2 * lanes ELSE lanes

\* the log entries of pass and window position index on one of bufs that
\* cover lane d
Hits(log, pass, bufs, index, d) ==
    {j \in DOMAIN log :
        /\ log[j].pass = pass /\ log[j].buf \in bufs /\ log[j].index = index
        /\ log[j].lo <= d /\ d < log[j].lo + log[j].width}

\* lane d is covered by one entry, of the vector loop below len and of
\* the scalar tail from len on
OnceByItsLoop(log, hits, d, len) ==
    /\ Cardinality(hits) = 1
    /\ \A j \in hits : log[j].loop = (IF d < len THEN "vec" ELSE "tail")

\* C13: with len = C - (C mod V), every vector access to the index
\* scratch stays in [0, len) and to the float max scratch in [0, C);
\* every lane in [0, C) is initialised once in Pass I and updated once
\* per window position in Pass II, by the vector loop below len and by
\* the scalar tail from len on; the final widening copy covers [0, len)
\* only and so leaves the tail lanes of indices as the tail wrote them
LanesAndScratchInBounds ==
    (op = "forward" /\ input.fmt = "ChannelsLast" /\ pc = "parallel") =>
        \A w \in DOMAIN workers :
            workers[w].i < workers[w].end =>
                LET at == RowMajor(workers[w].i)
                    log == UnitAt(at).log
                    C == Size(input, 1)
                    len == C - (C % VecSize)
                    val == IF input.dtype = "BFloat16" THEN "max" ELSE "out"
                    positions == WindowIndices(at.oh, at.ow)
                IN  /\ \A j \in DOMAIN log :
                          /\ log[j].lo >= 0
                          /\ log[j].lo + log[j].width <=
                                 (IF log[j].buf = "ibuf" THEN len ELSE C)
                          /\ log[j].pass = "II" => log[j].index \in positions
                    /\ \A d \in 0 .. C - 1 :
                          /\ OnceByItsLoop(log, Hits(log, "I", {val}, -1, d), d, len)
                          /\ OnceByItsLoop(log, Hits(log, "I", {"ibuf", "ind"}, -1, d), d, len)
                          /\ \A p \in positions :
                                /\ OnceByItsLoop(log, Hits(log, "II", {val}, p, d), d, len)
                                /\ OnceByItsLoop(log, Hits(log, "II", {"ibuf", "ind"}, p, d),
                                                 d, len)
                    /\ \A j, k \in DOMAIN log :
                          (/\ log[j].pass = "convert" /\ log[j].buf = "ind"
                           /\ log[k].loop = "tail" /\ log[k].buf = "ind") =>
                              /\ log[j].lo = 0 /\ log[j].width = len
                              /\ log[k].lo >= len

\* a float worker about to run a unit of five channels in vectors of two:
\* two vector iterations and a tail lane
TwoVectorsAndATail ==
    /\ op = "forward" /\ input.fmt = "ChannelsLast" /\ pc = "parallel"
    /\ input.dtype = "Float"
    /\ Size(input, 1) = 5
    /\ lanes = 2
    /\ started
    /\ \E w \in DOMAIN workers : workers[w].i < workers[w].end

----------------------------------------------------------------------------
(* What the backward results are checked against *)

RECURSIVE SumOver(_, _)
\* the sum of f over the finite set S
SumOver(S, f) ==
    IF S = {} THEN 0
    ELSE LET x == CHOOSE y \in S : TRUE
         IN  f[x] + SumOver(S \ {x}, f)

BackwardDone == op = "backward" /\ pc = "done"

\* the (n, c, oh, ow) of grad_output
GradCells ==
    LET r == Len(grad_output.sizes)
    IN  {<<n, c, oh, ow>> : n \in 0 .. (IF r = 3 THEN 1 ELSE Size(grad_output, 0)) - 1,
                             c \in 0 .. Size(grad_output, r - 3) - 1,
                             oh \in 0 .. Size(grad_output, -2) - 1,
                             ow \in 0 .. Size(grad_output, -1) - 1}

\* the output cells of plane (n, c) whose stored index is j
CellsNaming(n, c, j) ==
    {q \in GradCells : q[1] = n /\ q[2] = c /\ At(indices, q[1], q[2], q[3], q[4]) = j}

\* every entry of indices is in [0, H*W)
IndicesInRange ==
    \A k \in DOMAIN indices.data :
        0 <= indices.data[k] /\ indices.data[k] < InputH * InputW

\* C6: for indices with all entries in [0, H*W), after backward each
\* grad_input element is the sum of grad_output over the output cells of
\* its plane whose index names it, 0 if none does
GradInputIsScatterSum ==
    (BackwardDone /\ IndicesInRange) =>
        \A n \in 0 .. (IF Len(input.sizes) = 3 THEN 1 ELSE Size(input, 0)) - 1,
           c \in 0 .. Size(input, Len(input.sizes) - 3) - 1,
           j \in 0 .. InputH * InputW - 1 :
            At(grad_input, n, c, j \div InputW, j % InputW) =
                SumOver(CellsNaming(n, c, j),
                        [q \in GradCells |-> At(grad_output, q[1], q[2], q[3], q[4])])

\* a finished call whose grad_input is channels-last, whose grad_output
\* arrived contiguous, and in which two output cells of one plane name the
\* same input element
TwoCellsOneElement ==
    /\ BackwardDone
    /\ grad_input.fmt = "ChannelsLast"
    /\ grad_output.fmt = "Contiguous"
    /\ Size(grad_input, 1) = 2
    /\ \E q \in GradCells :
          Cardinality(CellsNaming(q[1], q[2], At(indices, q[1], q[2], q[3], q[4]))) = 2

RECURSIVE SequentialBackward(_, _, _, _)
\* the backward kernel run by one thread over units u .. and inner
\* iterations k .., from the grad_input data gi
SequentialBackward(gi, u, k, total) ==
    IF u >= total THEN gi
    ELSE LET gout == Contiguous(grad_output, grad_input.fmt)
             ind == Contiguous(indices, grad_input.fmt)
             src == BackwardSource(grad_input, gout, u, k)
             target == BackwardTarget(grad_input, u, k, ind.data[src])
             last == k + 1 = BackwardInner(grad_input, gout)
         IN  SequentialBackward(
                 [gi EXCEPT ![target] = Accumulate(@, gout.data[src], grad_input.dtype)],
                 IF last THEN u + 1 ELSE u, IF last THEN 0 ELSE k + 1, total)

\* C10: in backward no grad_input element is ever written by two workers,
\* whatever the partition and interleaving, and the result is the one
\* sequential execution gives
WorkersWriteDisjoint ==
    op = "backward" =>
        /\ \A k \in DOMAIN writers : Cardinality(writers[k]) <= 1
        /\ pc = "done" =>
              grad_input.data =
                  SequentialBackward([k \in DOMAIN grad_input.data |-> 0], 0, 0,
                                     BackwardRange(grad_input, grad_output))

----------------------------------------------------------------------------
(* Forward followed by backward *)

\* the index forward stores for output cell (n, c, oh, ow) of input
ForwardIndex(n, c, oh, ow) ==
    IF input.fmt = "Contiguous"
    THEN LET plane == IF Len(input.sizes) = 3 THEN c ELSE n * Size(input, 1) + c
         IN  StoredIndex(LocalMax(input.data, plane * InputH * InputW, InputH, InputW,
                                  output_size[1], output_size[2], oh, ow).maxindex,
                         input.dtype)
    ELSE LET blank == [d \in 0 .. Size(input, 1) - 1 |-> UNINIT]
         IN  (IF input.dtype = "BFloat16"
              THEN ChannelsLastUnitBF16(blank, blank, input, n, oh, ow, lanes)
              ELSE ChannelsLastUnit(blank, blank, input, n, oh, ow, lanes, input.dtype)).ind[c]

\* indices is what forward returns for input
IndicesFromForward ==
    \A q \in GradCells :
        At(indices, q[1], q[2], q[3], q[4]) = ForwardIndex(q[1], q[2], q[3], q[4])

\* C12: when backward is given the indices forward returned, every write
\* to grad_input lands inside the region of the writing worker: the index
\* read is in [0, H*W), so the offset stays in the worker's plane
\* (contiguous) or batch entry (channels-last) and inside the buffer
ComposedWritesStayInside ==
    (op = "backward" /\ pc = "parallel" /\ IndicesFromForward) =>
        \A w \in DOMAIN workers :
            workers[w].i < workers[w].end =>
                LET me == workers[w]
                    gout == Contiguous(grad_output, grad_input.fmt)
                    ind == Contiguous(indices, grad_input.fmt)
                    maxindex == ind.data[BackwardSource(grad_input, gout, me.i, me.k)]
                IN  0 <= maxindex /\ maxindex < InputH * InputW

----------------------------------------------------------------------------
(* Errors and the parallel region *)

\* C8: every error of a forward or backward call is raised before any
\* parallel_for body starts, and once a body has started the call runs
\* to completion without an error
ErrorsPrecedeKernel ==
    /\ [](pc = "error" => ~started)
    /\ [][started => pc' # "error"]_vars
    /\ (started ~> pc = "done")

\* the channels-last kernel has refused a plane too large for its index
\* lanes, no body having started
OverflowRefused ==
    /\ pc = "error"
    /\ error = "overflow"
    /\ ~started

----------------------------------------------------------------------------
(* Windows *)

\* C9: for I >= 1 and O >= 1 every window has length at least 1 and lies
\* in [0, I), the first starts at 0, the last ends at I, and each window
\* starts no later than its predecessor ends
WindowsTile ==
    op = "window" =>
        /\ \A o \in 1 .. Len(win) :
              /\ win[o].hi - win[o].lo >= 1
              /\ 0 <= win[o].lo
              /\ win[o].hi <= ext[1]
        /\ Len(win) >= 1 => win[1].lo = 0
        /\ Len(win) = ext[2] => win[ext[2]].hi = ext[1]
        /\ \A o \in 1 .. Len(win) - 1 : win[o + 1].lo <= win[o].hi
        /\ Len(win) = ext[2] =>
              \A x \in 0 .. ext[1] - 1 :
                  \E o \in 1 .. Len(win) : win[o].lo <= x /\ x < win[o].hi

\* a finished scan of I = 3 into O = 2, whose two windows overlap
OverlappingWindows ==
    /\ op = "window"
    /\ ext = <<3, 2>>
    /\ Len(win) = 2
    /\ win[2].lo < win[1].hi

====
